---- MODULE Spec2Model ----
(***************************************************************************)
(* The widgets of src/main.rs as state machines: AppOne (a counter with a  *)
(* derived value), StaticList, DynamicList and App (the form with a        *)
(* controlled and an uncontrolled input).  A signal is its current value;  *)
(* the text, property or attribute that a reactive closure of the view     *)
(* writes is a variable of its own, rewritten by the handler whose signal  *)
(* write re-runs that closure.  Handlers run one at a time, to completion. *)
(***************************************************************************)
EXTENDS Integers, Sequences, FiniteSets

VARIABLES
    root,             \* the widget that is instantiated
    last,             \* the last event handled: [op, arg]
    clicks,           \* number of counter clicks handled so far
    \* AppOne
    count,            \* signal `count`
    button_red,       \* class "red" of the button
    progress,         \* the three <progress> elements: [max, value]
    \* StaticList
    length,           \* prop `length`
    static_signals,   \* the signals made by create_signal, in creation order
    counter_buttons,  \* rendered <li><button>: [sig, text]
    \* DynamicList
    initial_length,   \* prop `initial_length`
    next_counter_id,  \* the copy of next_counter_id owned by add_counter
    signals,          \* the counter signals made by create_signal, in creation order
    counters,         \* signal `counters`: sequence of <<id, signal>>
    rows,             \* rows kept by <For>: [key, id, sig]
    assigned,         \* every id given to an entry so far, in order
    \* App
    name,             \* signal `name`
    name_two,         \* signal `name_two`
    input_element,    \* NodeRef<Input>: "None" or "Some"
    input_one,        \* live text of the controlled <input>
    input_two,        \* live text of the uncontrolled <input>
    p_name,           \* text of <p>"Name is:" {name}</p>
    p_name_two,       \* text of <p>"Name Two is:" {name_two}</p>
    pc,               \* position inside on_submit, or "idle"
    value,            \* local `value` of on_submit
    prevent_calls,    \* calls of ev.prevent_default() for the current SubmitEvent
    navigated,        \* the browser ran the default action of a submit
    panicked          \* a handler aborted on a failed expect

appOneVars == <<count, button_red, progress>>
staticVars == <<length, static_signals, counter_buttons>>
dynamicVars == <<initial_length, next_counter_id, signals, counters, rows, assigned>>
appVars == <<name, name_two, input_element, input_one, input_two, p_name,
             p_name_two, pc, value, prevent_calls, navigated, panicked>>
vars == <<root, last, clicks, appOneVars, staticVars, dynamicVars, appVars>>

\* ---------------------------------------------------------------- bounds
MaxCount == 120          \* clicks on the AppOne button
MaxLength == 5           \* largest `length` of a StaticList
MaxStaticClicks == 3     \* clicks on StaticList buttons
MaxAdds == 2             \* clicks on "Add Counter"
MaxIncrements == 1       \* clicks on DynamicList counter buttons
MaxLen == 2              \* longest text of an <input>, in units
Keys == {"a", "b"}       \* the characters a keystroke can insert

\* <DynamicList initial_length=5/> in AppTwo; the lists 0..5 long are modelled
AppTwoInitialLength == 5

\* ------------------------------------------------------------- helpers
Range(s) == {s[i] : i \in 1..Len(s)}

\* the last event: its kind, the row or input it hit, the id its handler owns
Event3(op, arg, id) == [op |-> op, arg |-> arg, id |-> id]
Event(op, arg) == Event3(op, arg, 0)

\* A widget that is not instantiated has no signals and no elements.
NoAppOne == count = 0 /\ button_red = FALSE /\ progress = <<>>
NoStaticList == length = 0 /\ static_signals = <<>> /\ counter_buttons = <<>>
NoDynamicList ==
    /\ initial_length = 0 /\ next_counter_id = 0 /\ signals = <<>>
    /\ counters = <<>> /\ rows = <<>> /\ assigned = <<>>
NoApp ==
    /\ name = <<>> /\ name_two = <<>> /\ input_element = "None"
    /\ input_one = <<>> /\ input_two = <<>> /\ p_name = <<>> /\ p_name_two = <<>>
    /\ pc = "idle" /\ value = <<>> /\ prevent_calls = 0
    /\ navigated = FALSE /\ panicked = FALSE

\* ---------------------------------------------------------- ProgressBar
DefaultMax == 100

ProgressBar(max, progress_value) == [max |-> max, value |-> progress_value]

\* --------------------------------------------------------------- AppOne
double_count(n) == n * 2

class_red(n) == n % 2 = 1

\* set_count.update(|n| *n += 1)
IncrementBy2(n) == n + 2
Increment(n) == n + 1

AppOneView(n) ==
    <<ProgressBar(50, n), ProgressBar(DefaultMax, n), ProgressBar(50, double_count(n))>>

InitAppOne ==
    /\ root = "AppOne" /\ last = Event("init", 0) /\ clicks = 0
    /\ count = 0
    /\ button_red = class_red(0)
    /\ progress = AppOneView(0)
    /\ NoStaticList /\ NoDynamicList /\ NoApp

AppOneClick ==
    /\ root = "AppOne"
    /\ clicks < MaxCount
    /\ count' = Increment(count)
    /\ button_red' = class_red(count')
    /\ progress' = AppOneView(count')
    /\ clicks' = clicks + 1
    /\ last' = Event("click", 0)
    /\ UNCHANGED <<root, staticVars, dynamicVars, appVars>>

NextAppOne == AppOneClick

SpecAppOne == InitAppOne /\ [][NextAppOne]_vars

\* ----------------------------------------------------------- StaticList
\* (1..=length).map(|idx| create_signal(cx, idx))
StaticCounters(n) == [idx \in 1..n |-> idx]

\* the buttons, each showing the signal it was built from
StaticButtons(sigs) == [i \in 1..Len(sigs) |-> [sig |-> i, text |-> sigs[i]]]

InitStaticList ==
    /\ root = "StaticList" /\ last = Event("init", 0) /\ clicks = 0
    /\ length \in 0..MaxLength
    /\ static_signals = StaticCounters(length)
    /\ counter_buttons = StaticButtons(static_signals)
    /\ NoAppOne /\ NoDynamicList /\ NoApp

\* on:click of the button in row i
StaticClickAll(i) ==
    /\ static_signals' = [j \in 1..Len(static_signals) |-> Increment(static_signals[j])]
    /\ counter_buttons' =
         [j \in 1..Len(counter_buttons) |->
            [counter_buttons[j] EXCEPT !.text = static_signals'[counter_buttons[j].sig]]]
StaticClickRow(i) ==
    /\ static_signals' =
         [static_signals EXCEPT ![counter_buttons[i].sig] = Increment(@)]
    /\ counter_buttons' =
         [j \in 1..Len(counter_buttons) |->
            [counter_buttons[j] EXCEPT !.text = static_signals'[counter_buttons[j].sig]]]

StaticClick ==
    /\ root = "StaticList"
    /\ clicks < MaxStaticClicks
    /\ \E i \in 1..Len(counter_buttons) :
          /\ StaticClickRow(i)
          /\ last' = Event("click", i)
    /\ clicks' = clicks + 1
    /\ UNCHANGED <<root, length, appOneVars, dynamicVars, appVars>>

NextStaticList == StaticClick

SpecStaticList == InitStaticList /\ [][NextStaticList]_vars

\* ---------------------------------------------------------- DynamicList
\* create_signal(cx, v): the new signal is the next one of the scope
create_signal(arena, v) == Append(arena, v)

\* (0..initial_length).map(|id| (id, create_signal(cx, id + 1)))
initial_counters(n) == [k \in 1..n |-> <<k - 1, k>>]
initial_signals(n) == [k \in 1..n |-> (k - 1) + 1]

\* key=|counter| counter.0
key(counter) == counter[1]

\* view=move |cx, (id, (count, set_count))| ...: the row's handlers own the
\* id and the signal of the item the row was built for
RowView(counter) == [key |-> key(counter), id |-> counter[1], sig |-> counter[2]]

\* <For each key view/>: a row whose key is still in the list is kept as it
\* was built, a key that is new gets a row built from its item
ForByIndex(old_rows, items) ==
    [i \in 1..Len(items) |->
        IF i <= Len(old_rows) THEN old_rows[i] ELSE RowView(items[i])]
For(old_rows, items) ==
    [i \in 1..Len(items) |->
        IF \E j \in 1..Len(old_rows) : old_rows[j].key = key(items[i])
        THEN old_rows[CHOOSE j \in 1..Len(old_rows) : old_rows[j].key = key(items[i])]
        ELSE RowView(items[i])]

\* counters.retain(|(counter_id, _)| counter_id != &id)
retain_by_index(cs, id) ==
    IF id + 1 <= Len(cs)
    THEN SubSeq(cs, 1, id) \o SubSeq(cs, id + 2, Len(cs))
    ELSE cs
retain(cs, id) == SelectSeq(cs, LAMBDA c : c[1] # id)

\* next_counter_id += 1
next_id_same(n) == n
next_id(n) == n + 1

InitDynamicList ==
    /\ root = "DynamicList" /\ last = Event("init", 0) /\ clicks = 0
    /\ initial_length \in 0..AppTwoInitialLength
    /\ next_counter_id = initial_length
    /\ signals = initial_signals(initial_length)
    /\ counters = initial_counters(initial_length)
    /\ rows = For(<<>>, counters)
    /\ assigned = [k \in 1..initial_length |-> k - 1]
    /\ NoAppOne /\ NoStaticList /\ NoApp

\* on:click=add_counter
AddValueIsId ==
    /\ signals' = create_signal(signals, next_counter_id)
    /\ counters' = Append(counters, <<next_counter_id, Len(signals) + 1>>)
AddPush ==
    /\ signals' = create_signal(signals, next_counter_id + 1)
    /\ counters' = Append(counters, <<next_counter_id, Len(signals) + 1>>)

add_counter ==
    /\ root = "DynamicList"
    /\ next_counter_id < initial_length + MaxAdds
    /\ AddPush
    /\ next_counter_id' = next_id(next_counter_id)
    /\ rows' = For(rows, counters')
    /\ assigned' = Append(assigned, counters'[Len(counters')][1])
    /\ last' = Event("Add", 0)
    /\ UNCHANGED <<root, clicks, initial_length, appOneVars, staticVars, appVars>>

\* on:click of the counter button of row i: set_count.update(|n| *n += 1)
IncrementRow ==
    /\ root = "DynamicList"
    /\ clicks < MaxIncrements
    /\ \E i \in 1..Len(rows) :
          /\ signals' = [signals EXCEPT ![rows[i].sig] = Increment(@)]
          /\ last' = Event("Increment", i)
    /\ clicks' = clicks + 1
    /\ UNCHANGED <<root, initial_length, next_counter_id, counters, rows, assigned,
                   appOneVars, staticVars, appVars>>

\* set_counters.update(|counters| counters.retain(..)) of the handler that owns id
remove_counter(id) ==
    /\ counters' = retain(counters, id)
    /\ rows' = For(rows, counters')
    /\ UNCHANGED <<root, clicks, initial_length, next_counter_id, signals, assigned,
                   appOneVars, staticVars, appVars>>

\* on:click of the "Remove" button of row i
RemoveRow ==
    /\ root = "DynamicList"
    /\ \E i \in 1..Len(rows) :
          /\ remove_counter(rows[i].id)
          /\ last' = Event3("Remove", i, rows[i].id)

\* the same handler run for an id that no entry of the list has (a second
\* run for a row already removed, or an id not assigned yet)
RemoveAbsent ==
    /\ root = "DynamicList"
    /\ \E id \in 0..(initial_length + MaxAdds) :
          /\ id \notin {counters[k][1] : k \in 1..Len(counters)}
          /\ remove_counter(id)
          /\ last' = Event3("RemoveAbsent", 0, id)

NextDynamicList == add_counter \/ IncrementRow \/ RemoveRow \/ RemoveAbsent

SpecDynamicList == InitDynamicList /\ [][NextDynamicList]_vars

\* ------------------------------------------------------------------ App
\* A text is a sequence of units; the two initial texts are one unit each.
Controlled == <<"Controlled">>
Uncontrolled == <<"Uncontrolled">>

\* what one keystroke can turn the text t of an <input> into
Keystroke(t) ==
    {Append(t, k) : k \in IF Len(t) < MaxLen THEN Keys ELSE {}}
        \cup (IF Len(t) > 0 THEN {SubSeq(t, 1, Len(t) - 1)} ELSE {})

\* event_target_value(&ev): the text the target element holds when the handler runs
event_target_value(target_text) == target_text

\* fn App, up to the view: the signals, the empty NodeRef and on_submit exist
InitApp ==
    /\ root = "App" /\ last = Event("init", 0) /\ clicks = 0
    /\ name = Controlled
    /\ name_two = Uncontrolled
    /\ input_element = "None"
    /\ input_one = <<>> /\ input_two = <<>> /\ p_name = <<>> /\ p_name_two = <<>>
    /\ pc = "idle" /\ value = <<>> /\ prevent_calls = 0
    /\ navigated = FALSE /\ panicked = FALSE
    /\ NoAppOne /\ NoStaticList /\ NoDynamicList

\* view! of App: builds the elements and fills the NodeRef
AppView ==
    /\ root = "App" /\ pc = "idle"
    /\ input_element = "None"
    /\ input_one' = name
    /\ p_name' = name
    /\ input_two' = name_two
    /\ input_element' = "Some"
    /\ p_name_two' = name_two
    /\ last' = Event("view", 0)
    /\ UNCHANGED <<root, clicks, name, name_two, pc, value, prevent_calls, navigated,
                   panicked, appOneVars, staticVars, dynamicVars>>

\* on:input of the controlled <input>: set_name.set(event_target_value(&ev))
set_name_previous(typed, shown) == shown
set_name(typed, shown) == event_target_value(typed)

\* a keystroke in the controlled <input>, and its on:input handler
InputOne ==
    /\ root = "App" /\ pc = "idle"
    /\ input_element = "Some"
    /\ \E t \in Keystroke(input_one) :
          /\ input_one' = t
          /\ name' = set_name(t, input_one)
    /\ p_name' = name'
    /\ last' = Event("input", 1)
    /\ UNCHANGED <<root, clicks, name_two, input_element, input_two, p_name_two, pc,
                   value, prevent_calls, navigated, panicked,
                   appOneVars, staticVars, dynamicVars>>

\* a keystroke in the uncontrolled <input>, which has no handler
InputTwo ==
    /\ root = "App" /\ pc = "idle"
    /\ input_element = "Some"
    /\ input_two' \in Keystroke(input_two)
    /\ last' = Event("input", 2)
    /\ UNCHANGED <<root, clicks, name, name_two, input_element, input_one, p_name,
                   p_name_two, pc, value, prevent_calls, navigated, panicked,
                   appOneVars, staticVars, dynamicVars>>

\* a SubmitEvent is handed to on_submit
Submit ==
    /\ root = "App" /\ pc = "idle"
    /\ pc' = "prevent_default"
    /\ prevent_calls' = 0
    /\ last' = Event("submit", 0)
    /\ UNCHANGED <<root, clicks, name, name_two, input_element, input_one, input_two,
                   p_name, p_name_two, value, navigated, panicked,
                   appOneVars, staticVars, dynamicVars>>

\* ev.prevent_default()
prevent_default_skipped == prevent_calls' = prevent_calls
prevent_default == prevent_calls' = prevent_calls + 1

on_submit_prevent ==
    /\ root = "App" /\ pc = "prevent_default"
    /\ prevent_default
    /\ pc' = "get"
    /\ UNCHANGED <<root, last, clicks, name, name_two, input_element, input_one,
                   input_two, p_name, p_name_two, value, navigated, panicked,
                   appOneVars, staticVars, dynamicVars>>

\* the browser's default action of a submit, run after the handler unless
\* the event was marked by prevent_default
DefaultAction == navigated' = (navigated \/ prevent_calls = 0)

\* input_element.get().expect("<input> to exist"), reference empty: panic
on_submit_ignore_missing ==
    /\ root = "App" /\ pc = "get"
    /\ input_element = "None"
    /\ pc' = "idle"
    /\ DefaultAction
    /\ UNCHANGED <<root, last, clicks, name, name_two, input_element, input_one,
                   input_two, p_name, p_name_two, value, prevent_calls, panicked,
                   appOneVars, staticVars, dynamicVars>>
on_submit_expect_failed ==
    /\ root = "App" /\ pc = "get"
    /\ input_element = "None"
    /\ panicked' = TRUE
    /\ pc' = "idle"
    /\ DefaultAction
    /\ UNCHANGED <<root, last, clicks, name, name_two, input_element, input_one,
                   input_two, p_name, p_name_two, value, prevent_calls,
                   appOneVars, staticVars, dynamicVars>>

\* input_element.get().expect("<input> to exist").value(), reference filled
on_submit_value ==
    /\ root = "App" /\ pc = "get"
    /\ input_element = "Some"
    /\ value' = input_two
    /\ pc' = "set"
    /\ UNCHANGED <<root, last, clicks, name, name_two, input_element, input_one,
                   input_two, p_name, p_name_two, prevent_calls, navigated, panicked,
                   appOneVars, staticVars, dynamicVars>>

\* set_name_two.set(value), and the return to the browser
set_name_two_initial(v) == Uncontrolled
set_name_two(v) == v

on_submit_set ==
    /\ root = "App" /\ pc = "set"
    /\ name_two' = set_name_two(value)
    /\ p_name_two' = name_two'
    /\ value' = <<>>
    /\ pc' = "idle"
    /\ DefaultAction
    /\ UNCHANGED <<root, last, clicks, name, input_element, input_one, input_two,
                   p_name, prevent_calls, panicked,
                   appOneVars, staticVars, dynamicVars>>

NextApp ==
    \/ AppView \/ InputOne \/ InputTwo \/ Submit
    \/ on_submit_prevent \/ on_submit_expect_failed \/ on_submit_value \/ on_submit_set

SpecApp == InitApp /\ [][NextApp]_vars

\* =============================================================== claims
Ids(cs) == [k \in 1..Len(cs) |-> cs[k][1]]
NoDuplicates(seq) == \A i, j \in 1..Len(seq) : seq[i] = seq[j] => i = j
\* the counter value of the entry at position k
ValueAt(cs, sigs, k) == sigs[cs[k][2]]
\* the sequence without its element at position i
Without(seq, i) == SubSeq(seq, 1, i - 1) \o SubSeq(seq, i + 1, Len(seq))

\* C1: every id given to an entry (the initial ids 0..N-1 and each id given
\* by Add) is given once, whether or not the entry is still in the list, and
\* no two entries of the list share an id.
C1_IdsNeverReused ==
    /\ NoDuplicates(assigned)
    /\ NoDuplicates(Ids(counters))
    /\ Range(Ids(counters)) \subseteq Range(assigned)
    /\ Len(assigned) >= initial_length
    /\ \A k \in 1..initial_length : assigned[k] = k - 1

\* an Add after a removal
C1_Witness ==
    /\ last.op = "Add"
    /\ \E x \in Range(assigned) : x \notin Range(Ids(counters))
    /\ Len(assigned) > initial_length + 1

\* C2: removing an id that no entry has changes neither the list nor the
\* counter values nor the next id and raises no error; hence a second
\* removal of the same id changes nothing either.
C2_RemoveAbsentStep ==
    /\ last'.op = "RemoveAbsent" =>
          /\ UNCHANGED <<counters, signals, next_counter_id, rows>>
          /\ panicked' = FALSE
    /\ (last.op \in {"Remove", "RemoveAbsent"} /\ last'.op \in {"Remove", "RemoveAbsent"}
            /\ last'.id = last.id) =>
          UNCHANGED <<counters, signals, next_counter_id, rows>>

C2_RemoveAbsentNoOp == [][C2_RemoveAbsentStep]_vars

\* a removal of an id that was removed before, from a list that is not empty
C2_Witness ==
    /\ last.op = "RemoveAbsent"
    /\ last.id \in Range(assigned)
    /\ Len(counters) >= 2

\* C3: DynamicList(N) starts with the ids 0..N-1 in order, id holding id+1,
\* and each Add appends one entry with the next id and the value id+1 and
\* raises the next id by one, keeping the entries that were there.
C3_InitialShape ==
    last.op = "init" =>
        /\ Len(counters) = initial_length
        /\ next_counter_id = initial_length
        /\ \A k \in 1..Len(counters) :
              counters[k][1] = k - 1 /\ ValueAt(counters, signals, k) = k

C3_AddStep ==
    last'.op = "Add" =>
        /\ Len(counters') = Len(counters) + 1
        /\ SubSeq(counters', 1, Len(counters)) = counters
        /\ counters'[Len(counters')][1] = next_counter_id
        /\ ValueAt(counters', signals', Len(counters')) = next_counter_id + 1
        /\ \A k \in 1..Len(counters) :
              ValueAt(counters', signals', k) = ValueAt(counters, signals, k)
        /\ next_counter_id' = next_counter_id + 1

C3_InitAndAdd == []C3_InitialShape /\ [][C3_AddStep]_vars

\* from N = 5: Add, Remove(2), Increment(5)
C3_Witness ==
    /\ initial_length = 5
    /\ Ids(counters) = <<0, 1, 3, 4, 5>>
    /\ ValueAt(counters, signals, 5) = 7
    /\ \A k \in 1..4 : ValueAt(counters, signals, k) = counters[k][1] + 1
    /\ last = Event("Increment", 5)

\* C4: count is the number of clicks, both bars bound to count show it, the
\* bar bound to the doubled value shows twice count, and the button is red
\* exactly when count is odd.
C4_CounterConsistent ==
    /\ count = clicks
    /\ Len(progress) = 3
    /\ progress[1].value = count
    /\ progress[2].value = count
    /\ progress[3].value = 2 * count
    /\ button_red = (count % 2 = 1)

C4_Witness == last.op = "click" /\ clicks = 7 /\ button_red /\ progress[3].value = 14

\* C5: StaticList(N) has N rows, row i starting at i; a click on row i
\* raises row i by one and leaves every other row and the number of rows alone.
C5_Rows ==
    /\ Len(counter_buttons) = length
    /\ last.op = "init" => \A i \in 1..length : counter_buttons[i].text = i

C5_ClickStep ==
    last'.op = "click" =>
        /\ Len(counter_buttons') = Len(counter_buttons)
        /\ \A j \in 1..Len(counter_buttons) :
              counter_buttons'[j].text =
                 counter_buttons[j].text + (IF j = last'.arg THEN 1 ELSE 0)

C5_StaticListFrame == []C5_Rows /\ [][C5_ClickStep]_vars

C5_Witness ==
    /\ last = Event("click", 2)
    /\ length = 3
    /\ counter_buttons[1].text = 1 /\ counter_buttons[2].text = 4
    /\ counter_buttons[3].text = 3

\* C6: once the controlled input exists, the text it shows is the value of
\* `name` between any two events, and so is the paragraph next to it.
C6_ControlledInSync ==
    input_element = "Some" => (input_one = name /\ p_name = name)

C6_Witness ==
    /\ last = Event("input", 1)
    /\ input_one = <<"a", "b">>
    /\ name = <<"a", "b">>

\* C7: a keystroke in the uncontrolled input leaves name_two alone; a submit
\* handled with the element in place leaves name_two equal to the text the
\* element holds, and changes neither that text nor `name`.
C7_Submitted ==
    (last.op = "submit" /\ pc = "idle" /\ input_element = "Some") =>
        (name_two = input_two /\ p_name_two = input_two)

C7_Step ==
    /\ (last'.op = "input" /\ last'.arg = 2) => name_two' = name_two
    /\ last'.op = "submit" =>
          (input_two' = input_two /\ name' = name /\ input_one' = input_one)

C7_UncontrolledSubmit == []C7_Submitted /\ [][C7_Step]_vars

C7_Witness ==
    /\ last.op = "submit" /\ pc = "idle"
    /\ input_two = <<"Uncontrolled", "a">>
    /\ name_two = <<"Uncontrolled", "a">>
    /\ name = Controlled

\* C8: prevent_default has been called exactly once when the handler reads
\* the reference and when it ends, by return or by panic; the default action
\* never runs.
C8_DefaultSuppressed ==
    /\ pc \in {"get", "set"} => prevent_calls = 1
    /\ (last.op = "submit" /\ pc = "idle") => prevent_calls = 1
    /\ navigated = FALSE

\* a submit whose handler aborted on the empty reference
C8_Witness ==
    /\ last.op = "submit" /\ pc = "idle"
    /\ input_element = "None" /\ panicked
    /\ prevent_calls = 1

\* C9: a submit handled while the reference is empty aborts the handler and
\* leaves name_two as it was; no other step aborts.
C9_Step ==
    /\ (pc = "get" /\ input_element = "None") =>
          /\ panicked' = TRUE
          /\ pc' = "idle"
          /\ name_two' = name_two /\ p_name_two' = p_name_two
    /\ panicked' # panicked => (pc = "get" /\ input_element = "None")

C9_FailFast == [][C9_Step]_vars

C9_Witness ==
    /\ panicked /\ last.op = "submit" /\ pc = "idle"
    /\ name_two = Uncontrolled

\* C10: the row at position i carries the id and the signal of the entry at
\* position i; its counter button raises that entry's counter only and its
\* Remove button removes that entry only.
C10_Wired ==
    /\ Len(rows) = Len(counters)
    /\ \A i \in 1..Len(rows) :
          rows[i].id = counters[i][1] /\ rows[i].sig = counters[i][2]

C10_Step ==
    /\ last'.op = "Increment" =>
          /\ counters' = counters
          /\ signals' = [signals EXCEPT ![counters[last'.arg][2]] = @ + 1]
    /\ last'.op = "Remove" =>
          /\ counters' = Without(counters, last'.arg)
          /\ signals' = signals

C10_KeyedRows == []C10_Wired /\ [][C10_Step]_vars

\* a click on the counter button of a row that earlier removals moved up
C10_Witness ==
    /\ last.op = "Increment"
    /\ last.arg <= Len(counters)
    /\ counters[last.arg][1] > last.arg
    /\ ValueAt(counters, signals, last.arg) = counters[last.arg][1] + 2

====
